---- MODULE Spec2Model ----
(***************************************************************************)
(* Model of src/doc_analyzer.py: the three-stage pipeline                  *)
(* extract -> analyze -> revise, its JSON extraction, its shape            *)
(* normalization and its revision-prompt builder.                          *)
(*                                                                         *)
(* Python values are tagged records: PyStr, PyList (a list of str),        *)
(* PyDict (a TLA+ function from keys to Python values) and PyNone.  A      *)
(* Python str that is only passed around is a TLA+ string; a text that is  *)
(* searched (the model output) or assembled (a prompt) is a sequence of    *)
(* its pieces.  A call that may raise returns Return(v) or Raise(e).       *)
(*                                                                         *)
(* playwright is the sync_playwright() context ("running" inside the with  *)
(* block, "stopped" once it is left) and browser the browser it launched:  *)
(* "open" from launch() until browser.close() is called, "closed" after.   *)
(***************************************************************************)
EXTENDS Integers, Sequences, FiniteSets, TLC

VARIABLES pc, playwright, browser, title, article, analysis_response,
          json_str, raw_analysis_json, analysis_json, revision_prompt,
          trace, out, exc, exit

vars == <<pc, playwright, browser, title, article, analysis_response,
          json_str, raw_analysis_json, analysis_json, revision_prompt,
          trace, out, exc, exit>>

(***************************************************************************)
(* Bounds of the model.                                                    *)
(***************************************************************************)
MaxTextLen == 5
MaxSuggestions == 2

(***************************************************************************)
(* Python values.                                                          *)
(***************************************************************************)
PyNone == [t |-> "None"]
PyStr(s) == [t |-> "str", s |-> s]
PyList(l) == [t |-> "list", l |-> l]
PyDict(d) == [t |-> "dict", d |-> d]

EmptyDict == [k \in {} |-> PyNone]

Return(v) == [raised |-> "none", val |-> v]
Raise(e) == [raised |-> e]

\* dict.get(key, default)
Get(d, key, default) == IF key \in DOMAIN d THEN d[key] ELSE default

\* truth value of a str or None, as `if title and article` tests it
Truthy(v) == v.t = "str" /\ v.s # ""

(***************************************************************************)
(* extract_json: re.search(r'(\{.*\})', text, re.DOTALL).                  *)
(* A text is a sequence of characters.  re.search tries the start          *)
(* positions from the left; at a start the pattern needs '{', then the     *)
(* greedy '.*' takes as many characters as it can while a '}' follows.     *)
(***************************************************************************)
Chars == {"{", "}", "x", "\n"}

SeqsUpTo(S, n) == UNION {[1..m -> S] : m \in 0..n}

\* what '.' matches under re.DOTALL: every character, the newline included
Dot(c) == TRUE

\* the ends j of the matches of \{.*\} that start at i
MatchEnds(text, i) ==
    IF text[i] # "{" THEN {}
    ELSE {j \in (i+1)..Len(text) :
            /\ text[j] = "}"
            /\ \A k \in (i+1)..(j-1) : Dot(text[k])}

MatchStarts(text) == {i \in 1..Len(text) : MatchEnds(text, i) # {}}

Least(S) == CHOOSE x \in S : \A y \in S : x <= y
Greatest(S) == CHOOSE x \in S : \A y \in S : x >= y

\* the end a non-greedy '.*?' would stop at
LazyEnd(S) == Least(S)
\* the end the greedy '.*' stops at: the longest match
GreedyEnd(S) == Greatest(S)

extract_json(text) ==
    IF MatchStarts(text) = {}
    THEN Raise("ValueError")
    ELSE LET i == Least(MatchStarts(text))
             j == GreedyEnd(MatchEnds(text, i))
         IN  Return(SubSeq(text, i, j))

(***************************************************************************)
(* json.loads on the extracted span.  The character "x" stands for any     *)
(* character that is not a brace or a newline, so a span that holds one    *)
(* may or may not be a JSON document; a span of braces alone is one only   *)
(* when it is "{}".  A span starts with '{', so a parsed value is a dict.  *)
(***************************************************************************)
json_loads(span, objects) ==
    IF span = <<"{", "}">>
    THEN {Return(EmptyDict)}
    ELSE IF \A k \in 1..Len(span) : span[k] \in {"{", "}"}
         THEN {Raise("JSONDecodeError")}
         ELSE {Raise("JSONDecodeError")} \cup {Return(o) : o \in objects}

(***************************************************************************)
(* normalize_analysis_json.                                                *)
(***************************************************************************)
\* f"Improve {key} clarity"
ImproveClarity(key) ==
    CASE key = "readability" -> "Improve readability clarity"
      [] key = "structure" -> "Improve structure clarity"
      [] key = "completeness" -> "Improve completeness clarity"

\* f"Use simpler structure for {key}"
UseSimpler(key) ==
    CASE key = "readability" -> "Use simpler structure for readability"
      [] key = "structure" -> "Use simpler structure for structure"
      [] key = "completeness" -> "Use simpler structure for completeness"

\* wrap(key), for a key raw_json has (raw_json[key] raises KeyError without)
wrap(raw_json, key) ==
    PyDict([assessment |-> raw_json[key],
            suggestions |-> PyList(<<ImproveClarity(key), UseSimpler(key)>>)])

\* the detection rule: isinstance(raw_json.get("readability"), str)
IsFlatAnyKey(raw_json) == \E k \in DOMAIN raw_json : raw_json[k].t = "str"
IsFlat(raw_json) == Get(raw_json, "readability", PyNone).t = "str"

normalize_analysis_json(raw_json) ==
    IF IsFlat(raw_json)
    THEN IF \E k \in {"readability", "structure", "completeness"} :
                 k \notin DOMAIN raw_json
         THEN Raise("KeyError")
         ELSE Return(
                [k \in {"readability", "structure", "completeness",
                        "style_guidelines"} |->
                   IF k = "style_guidelines"
                   THEN PyDict([assessment |-> PyStr("Review"),
                                suggestions |->
                                   Get(raw_json, "style_guidelines",
                                       PyList(<<>>))])
                   ELSE wrap(raw_json, k)])
    ELSE Return(raw_json)

(***************************************************************************)
(* build_revision_prompt.  A prompt is the sequence of its pieces, in the  *)
(* order the f-string and str.join put them.                               *)
(***************************************************************************)
Bullet == "\n- "
NoSuggestions == "No suggestions provided."
RevisionHead(article_text) ==
    << "You are a skilled technical writer assistant.",
       "Here is an original documentation article:",
       article_text,
       "Based on the following suggestions, please rewrite the article to improve readability and style while keeping the original meaning intact:" >>
RevisionTail == << "Please output only the revised article text." >>

\* sep.join(items)
RECURSIVE Join(_, _)
Join(items, sep) ==
    IF items = <<>> THEN <<>>
    ELSE IF Len(items) = 1 THEN <<items[1]>>
    ELSE <<items[1], sep>> \o Join(Tail(items), sep)

\* the elif branch dropped: a bare list is not taken as the suggestions
StyleSuggestionsDictOnly(style_guidelines) ==
    IF style_guidelines.t = "dict"
    THEN Get(style_guidelines.d, "suggestions", PyList(<<>>))
    ELSE PyList(<<>>)

\* lines 184-189
StyleSuggestions(style_guidelines) ==
    IF style_guidelines.t = "dict"
    THEN Get(style_guidelines.d, "suggestions", PyList(<<>>))
    ELSE IF style_guidelines.t = "list"
         THEN style_guidelines
         ELSE PyList(<<>>)

\* the conditional expression without its else branch
SuggestionsTextAlwaysBullets(combined) == <<Bullet>> \o Join(combined, Bullet)

\* line 192
SuggestionsText(combined) ==
    IF combined # <<>>
    THEN <<Bullet>> \o Join(combined, Bullet)
    ELSE <<NoSuggestions>>

\* The operands of + (line 191) in the inputs drawn are a list of str, a
\* str, a dict or None, and the left one is never a str: list + list
\* concatenates, every other pair raises TypeError.
build_revision_prompt(article_text, suggestions) ==
    LET readability == Get(suggestions, "readability", PyDict(EmptyDict)) IN
    IF readability.t # "dict"
    THEN Raise("AttributeError")
    ELSE
      LET readability_suggestions ==
              Get(readability.d, "suggestions", PyList(<<>>))
          style_guidelines ==
              Get(suggestions, "style_guidelines", PyList(<<>>))
          style_suggestions == StyleSuggestions(style_guidelines)
      IN  IF readability_suggestions.t = "list" /\ style_suggestions.t = "list"
          THEN Return(RevisionHead(article_text)
                        \o SuggestionsText(readability_suggestions.l
                                             \o style_suggestions.l)
                        \o RevisionTail)
          ELSE Raise("TypeError")

(***************************************************************************)
(* The inputs drawn.                                                       *)
(***************************************************************************)
Keys == {"readability", "structure", "completeness", "style_guidelines"}
Tips == {"tip1", "tip2"}
SuggestionLists == SeqsUpTo(Tips, MaxSuggestions)

Absent == [t |-> "absent"]

\* a dict of the keys whose value is given
DictOf(all) == [k \in {x \in DOMAIN all : all[x] # Absent} |-> all[k]]

\* the {assessment, suggestions} objects a response may hold, well formed
\* or not: either field may be missing and suggestions may be null
Feedbacks ==
    {DictOf([assessment |-> a, suggestions |-> g]) :
        a \in {Absent, PyStr("clear")},
        g \in {Absent, PyNone} \cup {PyList(l) : l \in SuggestionLists}}

ReadabilityValues ==
    {Absent, PyNone, PyStr("clear"), PyStr("")}
        \cup {PyDict(f) : f \in Feedbacks}
AspectValues ==
    {Absent, PyStr("clear"), PyStr(""),
     PyDict([assessment |-> PyStr("clear"), suggestions |-> PyList(<<"tip1">>)])}
StyleValues ==
    {Absent, PyNone, PyStr("friendly"), PyStr("")}
        \cup {PyList(l) : l \in SuggestionLists}
        \cup {PyDict(f) : f \in Feedbacks}

RawObjects ==
    {DictOf([readability |-> r, structure |-> s, completeness |-> c,
             style_guidelines |-> g]) :
        r \in ReadabilityValues, s \in AspectValues, c \in AspectValues,
        g \in StyleValues}

Texts == SeqsUpTo(Chars, MaxTextLen)

\* what the extractor may find on the page
Titles == {PyStr(""), PyStr("No title found"), PyStr("Sample Title")}
Articles == {PyStr(""), PyStr("Para one.\nPara two.")}

\* the completions the pipeline runs are drawn from
ResponseTexts ==
    { <<>>, <<"x", "x">>, <<"}", "x", "{">>, <<"{", "}">>,
      <<"x", "{", "{", "}">>, <<"x", "{", "x", "}", "x">>,
      <<"{", "x", "{", "x", "}", "}", "\n">> }

\* the objects the pipeline runs parse them to
ResponseObjects ==
    {o \in RawObjects :
        /\ \A k \in {"structure", "completeness"} :
              Get(o, k, PyStr("clear")) = PyStr("clear")
        /\ Get(o, "readability", PyNone) \in
              {PyNone, PyStr("clear"),
               PyDict([assessment |-> PyStr("clear"),
                       suggestions |-> PyList(<<"tip1">>)])}
        /\ Get(o, "style_guidelines", PyNone) \in
              {PyNone, PyStr("friendly"), PyList(<<>>), PyList(<<"tip2">>),
               PyDict([suggestions |-> PyList(<<"tip2">>)])}}

(***************************************************************************)
(* The run: __main__ and the functions it calls, one action per step.      *)
(* trace is the history of the run's stages: the outcome of the extractor, *)
(* every model call made, and every step that returned.  out is what the   *)
(* process printed.  exit is "normal" when the process ends by reaching    *)
(* the end of the script and "unhandled" when an exception leaves it.      *)
(***************************************************************************)
Printed(what) == [what |-> what, text |-> <<>>]
PrintedText(what, text) == [what |-> what, text |-> text]

Init ==
    /\ pc = "start"
    /\ playwright = "none"
    /\ browser = "none"
    /\ title = PyNone
    /\ article = PyNone
    /\ analysis_response = <<>>
    /\ json_str = <<>>
    /\ raw_analysis_json = EmptyDict
    /\ analysis_json = EmptyDict
    /\ revision_prompt = <<>>
    /\ trace = <<>>
    /\ out = <<>>
    /\ exc = "none"
    /\ exit = "running"

\* an exception no handler encloses: lines 213 and 220 are outside the try
Unhandled(e) ==
    /\ exc' = e
    /\ exit' = "unhandled"
    /\ pc' = "end"

\* except json.JSONDecodeError alone
HandlerForDecodeErrorOnly(e) ==
    IF e = "JSONDecodeError" THEN "parse" ELSE "generic"

\* the except clauses of lines 237 and 241, in their order; every exception
\* raised here is an Exception
HandlerFor(e) ==
    IF e \in {"JSONDecodeError", "ValueError"} THEN "parse" ELSE "generic"

\* an exception raised inside the try of lines 222-235
Handled(e) ==
    /\ exc' = e
    /\ out' = IF HandlerFor(e) = "parse"
              THEN out \o << Printed("Failed to parse JSON from analysis response. Raw output:"),
                             PrintedText("analysis_response", analysis_response),
                             Printed("Parsing error") >>
              ELSE Append(out, Printed("Error during processing"))
    /\ exit' = "normal"
    /\ pc' = "end"

\* lines 19-23: the playwright context is entered, the browser launched
Launch ==
    /\ pc = "start"
    /\ playwright' = "running"
    /\ browser' = "open"
    /\ out' = Append(out, Printed("Opening browser"))
    /\ pc' = "goto"
    /\ UNCHANGED <<title, article, analysis_response, json_str,
                   raw_analysis_json, analysis_json, revision_prompt,
                   trace, exc, exit>>

\* line 24: page.goto; an exception leaves the with block, which stops
\* playwright, and no browser.close() is on that path
Goto ==
    /\ pc = "goto"
    /\ \E ok \in BOOLEAN :
         IF ok
         THEN /\ pc' = "wait"
              /\ UNCHANGED <<playwright, exc, exit>>
         ELSE /\ playwright' = "stopped"
              /\ Unhandled("Exception")
    /\ UNCHANGED <<browser, title, article, analysis_response, json_str,
                   raw_analysis_json, analysis_json, revision_prompt,
                   trace, out>>

\* lines 26-32: wait_for_selector; on its exception the guidance is
\* printed, the browser closed and (None, None) returned
WaitForSelector ==
    /\ pc = "wait"
    /\ \E ok \in BOOLEAN :
         IF ok
         THEN /\ pc' = "content"
              /\ UNCHANGED <<playwright, browser, title, article, trace, out>>
         ELSE /\ out' = Append(out, Printed("Timeout waiting for article content"))
              /\ browser' = "closed"
              /\ playwright' = "stopped"
              /\ title' = PyNone
              /\ article' = PyNone
              /\ trace' = Append(trace, "extractor_timeout")
              /\ pc' = "gate"
    /\ UNCHANGED <<analysis_response, json_str, raw_analysis_json,
                   analysis_json, revision_prompt, exc, exit>>

\* lines 35-46: page.content may raise; soup.title.string.strip() raises
\* when the title element has no string; the browser is closed after the
\* container is selected and before its absence is raised
Content ==
    /\ pc = "content"
    /\ \E outcome \in {"content_raises", "title_raises", "container_missing", "ok"} :
         CASE outcome \in {"content_raises", "title_raises"} ->
                /\ playwright' = "stopped"
                /\ Unhandled(IF outcome = "title_raises"
                             THEN "AttributeError" ELSE "Exception")
                /\ UNCHANGED <<browser, title, article, trace>>
           [] outcome = "container_missing" ->
                /\ browser' = "closed"
                /\ playwright' = "stopped"
                /\ Unhandled("Exception")
                /\ UNCHANGED <<title, article, trace>>
           [] outcome = "ok" ->
                /\ browser' = "closed"
                /\ playwright' = "stopped"
                /\ title' \in Titles
                /\ article' \in Articles
                /\ trace' = Append(trace, "extractor_ok")
                /\ pc' = "gate"
                /\ UNCHANGED <<exc, exit>>
    /\ UNCHANGED <<analysis_response, json_str, raw_analysis_json,
                   analysis_json, revision_prompt, out>>

\* `if True:` in place of the test
EnterAlways(t, a) == TRUE
\* line 215: if title and article
Enter(t, a) == Truthy(t) /\ Truthy(a)

\* lines 215-219
Gate ==
    /\ pc = "gate"
    /\ IF Enter(title, article)
       THEN /\ out' = out \o << Printed("Title:"), Printed("Article Preview:"),
                               Printed("Sending article to Ollama for analysis...") >>
            /\ pc' = "analysis_call"
            /\ exit' = exit
       ELSE /\ pc' = "end"
            /\ exit' = "normal"
            /\ out' = out
    /\ UNCHANGED <<playwright, browser, title, article, analysis_response,
                   json_str, raw_analysis_json, analysis_json,
                   revision_prompt, trace, exc>>

\* line 220: query_ollama(build_analysis_prompt(title, article)); a
\* non-zero return code raises Exception (lines 74-75)
AnalysisCall ==
    /\ pc = "analysis_call"
    /\ \E returncode \in {0, 1} :
         IF returncode # 0
         THEN /\ Unhandled("Exception")
              /\ trace' = Append(trace, "analysis_call")
              /\ UNCHANGED analysis_response
         ELSE /\ analysis_response' \in ResponseTexts
              /\ trace' = trace \o <<"analysis_call", "analysis_ok">>
              /\ pc' = "extract_json"
              /\ UNCHANGED <<exc, exit>>
    /\ UNCHANGED <<playwright, browser, title, article, json_str,
                   raw_analysis_json, analysis_json, revision_prompt, out>>

\* line 223
ExtractJson ==
    /\ pc = "extract_json"
    /\ LET r == extract_json(analysis_response) IN
         IF r.raised # "none"
         THEN /\ Handled(r.raised)
              /\ UNCHANGED <<json_str, trace>>
         ELSE /\ json_str' = r.val
              /\ trace' = Append(trace, "extract_json_ok")
              /\ pc' = "json_loads"
              /\ UNCHANGED <<out, exc, exit>>
    /\ UNCHANGED <<playwright, browser, title, article, analysis_response,
                   raw_analysis_json, analysis_json, revision_prompt>>

\* line 224
JsonLoads ==
    /\ pc = "json_loads"
    /\ \E r \in json_loads(json_str, ResponseObjects) :
         IF r.raised # "none"
         THEN /\ Handled(r.raised)
              /\ UNCHANGED <<raw_analysis_json, trace>>
         ELSE /\ raw_analysis_json' = r.val
              /\ trace' = Append(trace, "json_loads_ok")
              /\ pc' = "normalize"
              /\ UNCHANGED <<out, exc, exit>>
    /\ UNCHANGED <<playwright, browser, title, article, analysis_response,
                   json_str, analysis_json, revision_prompt>>

\* lines 225-230
Normalize ==
    /\ pc = "normalize"
    /\ LET r == normalize_analysis_json(raw_analysis_json) IN
         IF r.raised # "none"
         THEN /\ Handled(r.raised)
              /\ UNCHANGED <<analysis_json, trace>>
         ELSE /\ analysis_json' = r.val
              /\ trace' = Append(trace, "normalize_ok")
              /\ out' = out \o << Printed("Analysis Result (parsed JSON):"),
                                  Printed("Generating revised article") >>
              /\ pc' = "build_revision_prompt"
              /\ UNCHANGED <<exc, exit>>
    /\ UNCHANGED <<playwright, browser, title, article, analysis_response,
                   json_str, raw_analysis_json, revision_prompt>>

\* line 231
BuildRevisionPrompt ==
    /\ pc = "build_revision_prompt"
    /\ LET r == build_revision_prompt(article.s, analysis_json) IN
         IF r.raised # "none"
         THEN /\ Handled(r.raised)
              /\ UNCHANGED <<revision_prompt, trace>>
         ELSE /\ revision_prompt' = r.val
              /\ trace' = Append(trace, "build_revision_prompt_ok")
              /\ pc' = "revision_call"
              /\ UNCHANGED <<out, exc, exit>>
    /\ UNCHANGED <<playwright, browser, title, article, analysis_response,
                   json_str, raw_analysis_json, analysis_json>>

\* lines 232-235: query_ollama(revision_prompt), inside the try
RevisionCall ==
    /\ pc = "revision_call"
    /\ \E returncode \in {0, 1} :
         IF returncode # 0
         THEN /\ Handled("Exception")
              /\ trace' = Append(trace, "revision_call")
         ELSE /\ trace' = trace \o <<"revision_call", "revision_ok">>
              /\ out' = Append(out, Printed("Revised Article:"))
              /\ exit' = "normal"
              /\ pc' = "end"
              /\ UNCHANGED exc
    /\ UNCHANGED <<playwright, browser, title, article, analysis_response,
                   json_str, raw_analysis_json, analysis_json,
                   revision_prompt>>

Next ==
    \/ Launch
    \/ Goto
    \/ WaitForSelector
    \/ Content
    \/ Gate
    \/ AnalysisCall
    \/ ExtractJson
    \/ JsonLoads
    \/ Normalize
    \/ BuildRevisionPrompt
    \/ RevisionCall

Spec == Init /\ [][Next]_vars

(***************************************************************************)
(* extract_json on every text of the bound: the run taken up at line 223   *)
(* with the completion drawn from Texts.                                   *)
(***************************************************************************)
InitExtract ==
    /\ pc = "extract_json"
    /\ playwright = "stopped"
    /\ browser = "closed"
    /\ title = PyStr("Sample Title")
    /\ article = PyStr("Para one.\nPara two.")
    /\ analysis_response \in Texts
    /\ json_str = <<>>
    /\ raw_analysis_json = EmptyDict
    /\ analysis_json = EmptyDict
    /\ revision_prompt = <<>>
    /\ trace = <<"extractor_ok", "analysis_call", "analysis_ok">>
    /\ out = <<>>
    /\ exc = "none"
    /\ exit = "running"

NextExtract == ExtractJson

SpecExtract == InitExtract /\ [][NextExtract]_vars

(***************************************************************************)
(* normalize_analysis_json and build_revision_prompt on every object of    *)
(* the bound: the run taken up at line 225 with the parsed object drawn    *)
(* from RawObjects.                                                        *)
(***************************************************************************)
InitAnalysis ==
    /\ pc = "normalize"
    /\ playwright = "stopped"
    /\ browser = "closed"
    /\ title = PyStr("Sample Title")
    /\ article = PyStr("Para one.\nPara two.")
    /\ analysis_response = <<"{", "x", "}">>
    /\ json_str = <<"{", "x", "}">>
    /\ raw_analysis_json \in RawObjects
    /\ analysis_json = EmptyDict
    /\ revision_prompt = <<>>
    /\ trace = <<"extractor_ok", "analysis_call", "analysis_ok",
                 "extract_json_ok", "json_loads_ok">>
    /\ out = <<>>
    /\ exc = "none"
    /\ exit = "running"

NextAnalysis ==
    \/ Normalize
    \/ BuildRevisionPrompt

SpecAnalysis == InitAnalysis /\ [][NextAnalysis]_vars

(***************************************************************************)
(* Properties.                                                             *)
(***************************************************************************)
InTrace(e) == \E i \in 1..Len(trace) : trace[i] = e
IsPrefix(a, b) == Len(a) <= Len(b) /\ SubSeq(b, 1, Len(a)) = a
IsStrAt(o, k) == k \in DOMAIN o /\ o[k].t = "str"
IsDictAt(o, k) == k \in DOMAIN o /\ o[k].t = "dict"
IsListAt(o, k) == k \in DOMAIN o /\ o[k].t = "list"

\* the part of a revision prompt between the instruction and the closing line
SuggestionsSection(prompt) == SubSeq(prompt, 5, Len(prompt) - 1)
Positions(section, piece) == {i \in 1..Len(section) : section[i] = piece}

\* C1 (as claimed; the code breaks it): once normalization has run on an
\* object whose four keys all map to strings, each of the four keys of the
\* result is an object whose assessment is the non-empty original string of
\* that key and whose suggestions is a non-empty list of strings.  The
\* strings are taken non-empty, the inputs on which an assessment can be
\* both non-empty and the original string.
C1_FlatNormalizedAllPopulated ==
    (/\ pc # "normalize"
     /\ \A k \in Keys : IsStrAt(raw_analysis_json, k) /\ raw_analysis_json[k].s # "")
    => /\ InTrace("normalize_ok")
       /\ \A k \in Keys :
            /\ IsDictAt(analysis_json, k)
            /\ IsStrAt(analysis_json[k].d, "assessment")
            /\ analysis_json[k].d["assessment"] = raw_analysis_json[k]
            /\ analysis_json[k].d["assessment"].s # ""
            /\ IsListAt(analysis_json[k].d, "suggestions")
            /\ analysis_json[k].d["suggestions"].l # <<>>

Listed(prompt) ==
    LET section == SuggestionsSection(prompt) IN
    IF section = <<NoSuggestions>> THEN <<>>
    ELSE [i \in 1..(Len(section) \div 2) |-> section[2 * i]]

\* readability.suggestions of an analysis object, none when there is no
\* readability object or it has no suggestions
ReadabilityListed(a) ==
    IF IsDictAt(a, "readability") /\ IsListAt(a["readability"].d, "suggestions")
    THEN a["readability"].d["suggestions"].l
    ELSE <<>>

\* the style suggestions of an analysis object: style_guidelines itself
\* when a bare list, its suggestions when an object, none otherwise
StyleListed(a) ==
    IF IsListAt(a, "style_guidelines") THEN a["style_guidelines"].l
    ELSE IF IsDictAt(a, "style_guidelines")
            /\ IsListAt(a["style_guidelines"].d, "suggestions")
         THEN a["style_guidelines"].d["suggestions"].l
         ELSE <<>>

\* C4: a revision prompt that was built lists readability.suggestions
\* followed, in order, by the style suggestions (style_guidelines itself
\* when it is a bare list, style_guidelines.suggestions when it is an
\* object), each behind a bullet, and nothing else.
C4_CombinedSuggestionsInOrder ==
    pc = "revision_call" =>
      LET section == SuggestionsSection(revision_prompt)
          expected == ReadabilityListed(analysis_json) \o StyleListed(analysis_json)
      IN  /\ Listed(revision_prompt) = expected
          /\ expected # <<>> =>
               /\ Len(section) = 2 * Len(expected)
               /\ \A i \in 1..Len(expected) : section[2 * i - 1] = Bullet

\* readability suggestions and a bare list of two style tips, all listed
C4_Witness ==
    /\ pc = "revision_call"
    /\ IsListAt(analysis_json, "style_guidelines")
    /\ analysis_json["style_guidelines"].l = <<"tip1", "tip2">>
    /\ ReadabilityListed(analysis_json) = <<"tip2">>
    /\ Listed(revision_prompt) = <<"tip2", "tip1", "tip2">>

\* C5: a revision prompt that was built holds the marker "No suggestions
\* provided." exactly when readability.suggestions and the style
\* suggestions are both empty or absent, then it holds no bullet, and a
\* bullet in a prompt is always followed by a suggestion.
C5_MarkerIffNoSuggestions ==
    pc = "revision_call" =>
      LET section == SuggestionsSection(revision_prompt)
          none == /\ ReadabilityListed(analysis_json) = <<>>
                  /\ StyleListed(analysis_json) = <<>>
      IN  /\ none <=> Positions(revision_prompt, NoSuggestions) # {}
          /\ none => Positions(revision_prompt, Bullet) = {}
          /\ \A i \in Positions(section, Bullet) :
               i < Len(section) /\ section[i + 1] \notin {Bullet, NoSuggestions}

\* both lists present and empty: the marker, no bullet
C5_Witness ==
    /\ pc = "revision_call"
    /\ IsDictAt(analysis_json, "readability")
    /\ IsListAt(analysis_json["readability"].d, "suggestions")
    /\ analysis_json["readability"].d["suggestions"].l = <<>>
    /\ IsListAt(analysis_json, "style_guidelines")
    /\ analysis_json["style_guidelines"].l = <<>>
    /\ SuggestionsSection(revision_prompt) = <<NoSuggestions>>

\* C10 (as claimed; the code breaks it): for a flat-shaped object
\* (readability a string, structure and completeness present,
\* style_guidelines a string, a list of strings or absent) normalization
\* and then build_revision_prompt complete, and the run reaches the
\* revision model call.
C10_FlatReachesRevisionCall ==
    (/\ pc \notin {"normalize", "build_revision_prompt"}
     /\ IsStrAt(raw_analysis_json, "readability")
     /\ "structure" \in DOMAIN raw_analysis_json
     /\ "completeness" \in DOMAIN raw_analysis_json
     /\ \/ "style_guidelines" \notin DOMAIN raw_analysis_json
        \/ IsStrAt(raw_analysis_json, "style_guidelines")
        \/ IsListAt(raw_analysis_json, "style_guidelines"))
    => /\ pc = "revision_call"
       /\ exc = "none"
       /\ Len(revision_prompt) > 0

\* the stages of a run that goes through, in order
FullRun ==
    << "extractor_ok", "analysis_call", "analysis_ok", "extract_json_ok",
       "json_loads_ok", "normalize_ok", "build_revision_prompt_ok",
       "revision_call", "revision_ok" >>

\* C6: the stages of every run are an initial part of Extractor, Analyzer,
\* Reviser in that order, each stage and each model call at most once: no
\* model call follows the extractor's (None, None), and the revision call
\* follows the analysis call, the extraction, the parse and the
\* normalization that succeeded before it in the same run.
C6_StagesInOrderAndGated ==
    /\ trace = <<"extractor_timeout">> \/ IsPrefix(trace, FullRun)
    /\ InTrace("analysis_call") => Truthy(title) /\ Truthy(article)
    /\ \A i, j \in 1..Len(trace) : trace[i] = trace[j] => i = j

\* a run in which every stage succeeded
C6_Witness ==
    /\ pc = "end"
    /\ trace = FullRun

C8_ParseFailureRecovered ==
    (pc = "end" /\ InTrace("analysis_ok") /\ ~InTrace("json_loads_ok"))
    => /\ exit = "normal"
       /\ exc \in {"ValueError", "JSONDecodeError"}
       /\ \E i \in 1..Len(out) :
            out[i] = PrintedText("analysis_response", analysis_response)
       /\ ~InTrace("revision_call")

\* a completion with no '{...}' span, recovered
C8_Witness ==
    /\ pc = "end"
    /\ InTrace("analysis_ok")
    /\ ~InTrace("extract_json_ok")
    /\ exc = "ValueError"
    /\ exit = "normal"

\* C9 (as claimed; the code breaks it): a run that ended on an exception
\* ended with the exception caught and reported; none leaves the process
\* unhandled.
C9_NoUnhandledException ==
    (pc = "end" /\ exc # "none")
    => /\ exit = "normal"
       /\ \E i \in 1..Len(out) :
            out[i].what \in {"Error during processing", "Parsing error"}

====
